---------------------------- MODULE Spec2Model ----------------------------
(***************************************************************************)
(* Directory layer of the mail server: the Principal codec and updates     *)
(* (crates/directory/src/backend/internal/mod.rs), the directory registry  *)
(* and the connection pool policy (crates/directory/src/core/config.rs),   *)
(* and the tokens of the authentication results it reads                   *)
(* (crates/smtp/src/inbound/mod.rs).                                       *)
(*                                                                         *)
(* Numbers that travel as varints are kept as their base-128 digits, least *)
(* significant first and without trailing zeros (0 is <<>>), so that u32   *)
(* and usize keep their full width: the checker's own integers are too     *)
(* narrow for either.  Strings are their UTF-8 bytes.  Option<T> is <<>>   *)
(* for None and <<v>> for Some(v).                                         *)
(***************************************************************************)
EXTENDS Integers, Sequences, FiniteSets, TLC

VARIABLES
    principal,   \* the Principal handed to serialize
    bytes,       \* the byte string handed to deserialize
    origin,      \* how bytes was obtained from serialize(principal)
    outcome,     \* what deserialize(bytes) produced
    pc,          \* position of the codec scenario
    config,      \* the directory.* keys of the configuration, per id
    stores,      \* what the store named by each id's store key is
    test_mode,   \* whether the build has the feature test_mode
    todo,        \* ids Directories::parse has still to visit
    directories, \* the registry under construction
    errors,      \* diagnostics recorded in the configuration
    rpc,         \* position of Directories::parse
    pd_todo,        \* ids parse_directory has still to visit
    pd_directories, \* the registry parse_directory is filling
    pd_result,      \* what parse_directory returned
    pd_pc,          \* position of parse_directory
    poolConfig,  \* the pool.* keys under a backend prefix
    pool,        \* the pool build_pool returned
    ppc,         \* position of build_pool
    update,      \* the PrincipalUpdate a caller constructed last
    auth         \* the authentication results of a message and their tokens

codecVars == <<principal, bytes, origin, outcome, pc>>
registryVars == <<config, stores, test_mode, todo, directories, errors, rpc,
                  pd_todo, pd_directories, pd_result, pd_pc>>
poolVars == <<poolConfig, pool, ppc>>
updateVars == <<update>>
authVars == <<auth>>

vars == <<principal, bytes, origin, outcome, pc, config, stores, test_mode,
          todo, directories, errors, rpc, pd_todo, pd_directories, pd_result,
          pd_pc, poolConfig, pool, ppc, update, auth>>

(***************************************************************************)
(* Bounds of the model.                                                    *)
(***************************************************************************)
MaxListLen == 2
MaxMembers == 2
MaxRawLen == 4
MaxTrail == 1
MaxDirs == 2

(***************************************************************************)
(* Base-128 digit arithmetic.                                              *)
(***************************************************************************)
RECURSIVE Canonical(_)
Canonical(ds) ==
    IF ds = <<>> THEN <<>>
    ELSE IF ds[Len(ds)] = 0 THEN Canonical(SubSeq(ds, 1, Len(ds) - 1))
    ELSE ds

RECURSIVE NumOf(_)
NumOf(n) == IF n = 0 THEN <<>> ELSE <<n % 128>> \o NumOf(n \div 128)

RECURSIVE NatOf(_)
NatOf(ds) == IF ds = <<>> THEN 0 ELSE ds[1] + 128 * NatOf(Tail(ds))

\* ds > n for a digit string ds and a small natural n (n < 128^4)
Exceeds(ds, n) == Len(ds) > 4 \/ NatOf(ds) > n

RECURSIVE TopDown(_,_,_)
TopDown(a, b, i) ==
    IF i = 0 THEN FALSE
    ELSE IF a[i] # b[i] THEN a[i] > b[i]
    ELSE TopDown(a, b, i - 1)

\* a > b for canonical digit strings
Greater(a, b) ==
    IF Len(a) # Len(b) THEN Len(a) > Len(b) ELSE TopDown(a, b, Len(a))

U32Max == <<127, 127, 127, 127, 15>>
IsizeMax == <<127, 127, 127, 127, 127, 127, 127, 127, 127>>
\* isize::MAX / 4 and isize::MAX / 24: the largest capacity of a Vec<u32>
\* and of a Vec<String> (a String is three words) on a 64-bit target
IsizeMaxDiv4 == <<127, 127, 127, 127, 127, 127, 127, 127, 31>>
IsizeMaxDiv24 == <<85, 42, 85, 42, 85, 42, 85, 42, 5>>

(***************************************************************************)
(* LEB128 (utils::codec::leb128).                                          *)
(***************************************************************************)
\* write_leb128: seven bits a byte, low group first, the high bit set on
\* every byte but the last
RECURSIVE Leb128Digits(_)
Leb128Digits(ds) ==
    IF Len(ds) <= 1 THEN (IF ds = <<>> THEN <<0>> ELSE ds)
    ELSE <<ds[1] + 128>> \o Leb128Digits(Tail(ds))

write_leb128(ds) == Leb128Digits(Canonical(ds))

\* next_leb128: reads at most nshifts bytes from position pos (1-based);
\* the last shift keeps only the topbits low bits of its byte, the rest is
\* shifted out of the integer.  None when the bytes run out or when the
\* last permitted byte still has its continuation bit set.
RECURSIVE Leb128Read(_,_,_,_,_,_)
Leb128Read(bs, pos, i, nshifts, topbits, acc) ==
    IF i > nshifts \/ pos > Len(bs) THEN [st |-> "none"]
    ELSE LET b == bs[pos]
             g == IF i = nshifts THEN (b % 128) % (2 ^ topbits) ELSE b % 128
         IN  IF b < 128
             THEN [st |-> "ok", val |-> Canonical(acc \o <<g>>), pos |-> pos + 1]
             ELSE Leb128Read(bs, pos + 1, i + 1, nshifts, topbits, acc \o <<g>>)

next_leb128_u32(bs, pos) == Leb128Read(bs, pos, 1, 5, 4, <<>>)
next_leb128_usize(bs, pos) == Leb128Read(bs, pos, 1, 10, 1, <<>>)

(***************************************************************************)
(* Type.                                                                   *)
(***************************************************************************)
Types == {"Individual", "Group", "Resource", "Location", "Superuser",
          "List", "Other"}

\* self.typ as u8: the ordinal of the variant
TypeAsU8(t) ==
    CASE t = "Individual" -> 0
      [] t = "Group" -> 1
      [] t = "Resource" -> 2
      [] t = "Location" -> 3
      [] t = "Superuser" -> 4
      [] t = "List" -> 5
      [] t = "Other" -> 6

\* mutant: an unknown ordinal falls back to the default variant
from_u8_DefaultIndividual(value) ==
    CASE value = 0 -> "Individual"
      [] value = 1 -> "Group"
      [] value = 2 -> "Resource"
      [] value = 3 -> "Location"
      [] value = 4 -> "Superuser"
      [] value = 5 -> "List"
      [] value = 6 -> "Other"
      [] OTHER -> "Individual"

from_u8(value) ==
    CASE value = 0 -> "Individual"
      [] value = 1 -> "Group"
      [] value = 2 -> "Resource"
      [] value = 3 -> "Location"
      [] value = 4 -> "Superuser"
      [] value = 5 -> "List"
      [] OTHER -> "Other"

(***************************************************************************)
(* serialize                                                               *)
(***************************************************************************)
RECURSIVE SerializeStrings(_)
SerializeStrings(list) ==
    IF list = <<>> THEN <<>>
    ELSE write_leb128(NumOf(Len(Head(list)))) \o Head(list)
         \o SerializeStrings(Tail(list))

SerializeStringList(list) ==
    write_leb128(NumOf(Len(list))) \o SerializeStrings(list)

\* description.as_ref().map_or(0, |s| s.len()) and
\* description.as_deref().unwrap_or_default()
DescriptionLen(d) == IF d = <<>> THEN 0 ELSE Len(d[1])
DescriptionBytes(d) == IF d = <<>> THEN <<>> ELSE d[1]

\* mutant: the ids of member_of are written last first
RECURSIVE SerializeIds_Reversed(_)
SerializeIds_Reversed(list) ==
    IF list = <<>> THEN <<>>
    ELSE SerializeIds_Reversed(Tail(list)) \o write_leb128(Head(list))

RECURSIVE SerializeIds(_)
SerializeIds(list) ==
    IF list = <<>> THEN <<>>
    ELSE write_leb128(Head(list)) \o SerializeIds(Tail(list))

\* mutant: the two string lists are written emails first
serialize_EmailsFirst(p) ==
    <<1>>
    \o write_leb128(p.id)
    \o <<TypeAsU8(p.typ)>>
    \o write_leb128(p.quota)
    \o write_leb128(NumOf(Len(p.name))) \o p.name
    \o write_leb128(NumOf(DescriptionLen(p.description)))
    \o DescriptionBytes(p.description)
    \o SerializeStringList(p.emails)
    \o SerializeStringList(p.secrets)
    \o write_leb128(NumOf(Len(p.member_of))) \o SerializeIds(p.member_of)

serialize(p) ==
    <<1>>
    \o write_leb128(p.id)
    \o <<TypeAsU8(p.typ)>>
    \o write_leb128(p.quota)
    \o write_leb128(NumOf(Len(p.name))) \o p.name
    \o write_leb128(NumOf(DescriptionLen(p.description)))
    \o DescriptionBytes(p.description)
    \o SerializeStringList(p.secrets)
    \o SerializeStringList(p.emails)
    \o write_leb128(NumOf(Len(p.member_of))) \o SerializeIds(p.member_of)

(***************************************************************************)
(* deserialize                                                             *)
(***************************************************************************)
\* String::from_utf8: well-formed UTF-8 only
RECURSIVE ValidUtf8(_,_)
ValidUtf8(s, i) ==
    LET n == Len(s)
        Cont(k) == k <= n /\ s[k] >= 128 /\ s[k] <= 191
        In(k, lo, hi) == k <= n /\ s[k] >= lo /\ s[k] <= hi
    IN  IF i > n THEN TRUE
        ELSE LET b == s[i] IN
             IF b < 128 THEN ValidUtf8(s, i + 1)
             ELSE IF b >= 194 /\ b <= 223 THEN Cont(i + 1) /\ ValidUtf8(s, i + 2)
             ELSE IF b = 224 THEN In(i + 1, 160, 191) /\ Cont(i + 2) /\ ValidUtf8(s, i + 3)
             ELSE IF b = 237 THEN In(i + 1, 128, 159) /\ Cont(i + 2) /\ ValidUtf8(s, i + 3)
             ELSE IF b >= 225 /\ b <= 239 THEN Cont(i + 1) /\ Cont(i + 2) /\ ValidUtf8(s, i + 3)
             ELSE IF b = 240 THEN In(i + 1, 144, 191) /\ Cont(i + 2) /\ Cont(i + 3) /\ ValidUtf8(s, i + 4)
             ELSE IF b >= 241 /\ b <= 243 THEN Cont(i + 1) /\ Cont(i + 2) /\ Cont(i + 3) /\ ValidUtf8(s, i + 4)
             ELSE IF b = 244 THEN In(i + 1, 128, 143) /\ Cont(i + 2) /\ Cont(i + 3) /\ ValidUtf8(s, i + 4)
             ELSE FALSE

\* Vec::with_capacity(len): a capacity of more than isize::MAX bytes, which
\* is more than limit elements, panics ("capacity overflow").  Any smaller
\* request is taken to be granted by the allocator.
with_capacity(len, limit) ==
    IF Greater(len, limit) THEN "panic" ELSE "ok"

\* one turn less of `for _ in 0..len`; a count of 128^4 or more outlasts
\* any input of the model and is left as it is
OneLess(left) == IF Len(left) > 4 THEN left ELSE NumOf(NatOf(left) - 1)

\* String::from_utf8(string).ok() for the n bytes pushed from position from
StringOf(bs, from, n) ==
    IF ValidUtf8(SubSeq(bs, from, from + n - 1), 1)
    THEN [st |-> "ok", val |-> SubSeq(bs, from, from + n - 1), pos |-> from + n]
    ELSE [st |-> "none"]

\* deserialize_string once its length prefix l was read
StringBody(bs, l) ==
    IF l.st # "ok" THEN [st |-> "none"]
    ELSE IF with_capacity(l.val, IsizeMax) # "ok"
         THEN [st |-> with_capacity(l.val, IsizeMax)]
    ELSE IF Exceeds(l.val, Len(bs) - l.pos + 1) THEN [st |-> "none"]
    ELSE StringOf(bs, l.pos, NatOf(l.val))

deserialize_string(bs, pos) ==
    StringBody(bs, next_leb128_usize(bs, pos))

\* the loop of deserialize_string_list: left is the count still to read,
\* s the string just read
RECURSIVE StringListLoop(_,_,_,_)
RECURSIVE StringListPush(_,_,_,_)
StringListPush(bs, s, left, list) ==
    IF s.st # "ok" THEN [st |-> s.st]
    ELSE StringListLoop(bs, s.pos, OneLess(left), Append(list, s.val))

StringListLoop(bs, pos, left, list) ==
    IF left = <<>> THEN [st |-> "ok", val |-> list, pos |-> pos]
    ELSE StringListPush(bs, deserialize_string(bs, pos), left,
                        list)

StringListBody(bs, l) ==
    IF l.st # "ok" THEN [st |-> "none"]
    ELSE IF with_capacity(l.val, IsizeMaxDiv24) # "ok"
         THEN [st |-> with_capacity(l.val, IsizeMaxDiv24)]
    ELSE StringListLoop(bs, l.pos, l.val, <<>>)

deserialize_string_list(bs, pos) ==
    StringListBody(bs, next_leb128_usize(bs, pos))

\* the loop of deserialize_u32_list: v is the id just read
RECURSIVE U32ListLoop(_,_,_,_)
RECURSIVE U32ListPush(_,_,_,_)
\* mutant: the ids read so far are kept when the bytes run out
U32ListPush_KeepRead(bs, v, left, list) ==
    IF v.st # "ok" THEN [st |-> "ok", val |-> list, pos |-> Len(bs) + 1]
    ELSE U32ListLoop(bs, v.pos, OneLess(left), Append(list, v.val))

U32ListPush(bs, v, left, list) ==
    IF v.st # "ok" THEN [st |-> "none"]
    ELSE U32ListLoop(bs, v.pos, OneLess(left), Append(list, v.val))

U32ListLoop(bs, pos, left, list) ==
    IF left = <<>> THEN [st |-> "ok", val |-> list, pos |-> pos]
    ELSE U32ListPush(bs, next_leb128_u32(bs, pos), left, list)

U32ListBody(bs, l) ==
    IF l.st # "ok" THEN [st |-> "none"]
    ELSE IF with_capacity(l.val, IsizeMaxDiv4) # "ok"
         THEN [st |-> with_capacity(l.val, IsizeMaxDiv4)]
    ELSE U32ListLoop(bs, l.pos, l.val, <<>>)

deserialize_u32_list(bs, pos) ==
    U32ListBody(bs, next_leb128_usize(bs, pos))

\* mutant: later versions are read as version 1
VersionMatches_OrLater(b) == b >= 1

\* bytes.next()? != &1
VersionMatches(b) == b = 1

\* mutant: an empty description is kept as Some("")
DescriptionOf_KeepEmpty(v) == <<v>>

\* description: Some(v) unless v is empty
DescriptionOf(v) == IF v # <<>> THEN <<v>> ELSE <<>>

\* deserialize_string(&mut bytes).map(|v| ...) for description
MapDescription(x) ==
    IF x.st = "ok" THEN [x EXCEPT !.val = DescriptionOf(@)] ELSE x

\* The fields of the struct literal in deserialize are read in order, each
\* from where the one before stopped; r is the state after the fields read
\* so far: [st |-> "ok", val |-> the fields, pos |-> the next position],
\* [st |-> "none"] after a `?` returned None, [st |-> "panic"] when the
\* decoder does not return.
Unfilled == [id |-> <<>>, typ |-> "Individual", quota |-> <<>>,
             name |-> <<>>, description |-> <<>>, secrets |-> <<>>,
             emails |-> <<>>, member_of |-> <<>>]

\* field f of r takes the value just read, x; `?` ends the decoding
Filled(r, f, x) ==
    IF x.st # "ok" THEN [st |-> x.st]
    ELSE [st |-> "ok", val |-> [r.val EXCEPT ![f] = x.val], pos |-> x.pos]

ReadVersion(bs) ==
    IF Len(bs) = 0 THEN [st |-> "none"]
    ELSE IF ~VersionMatches(bs[1]) THEN [st |-> "none"]
    ELSE [st |-> "ok", val |-> Unfilled, pos |-> 2]

ReadId(bs, r) ==
    IF r.st # "ok" THEN r ELSE Filled(r, "id", next_leb128_u32(bs, r.pos))

ReadTyp(bs, r) ==
    IF r.st # "ok" THEN r
    ELSE IF r.pos > Len(bs) THEN [st |-> "none"]
    ELSE [st |-> "ok", val |-> [r.val EXCEPT !.typ = from_u8(bs[r.pos])],
          pos |-> r.pos + 1]

ReadQuota(bs, r) ==
    IF r.st # "ok" THEN r ELSE Filled(r, "quota", next_leb128_u32(bs, r.pos))

ReadName(bs, r) ==
    IF r.st # "ok" THEN r
    ELSE Filled(r, "name", deserialize_string(bs, r.pos))

ReadDescription(bs, r) ==
    IF r.st # "ok" THEN r
    ELSE Filled(r, "description",
                MapDescription(deserialize_string(bs, r.pos)))

ReadSecrets(bs, r) ==
    IF r.st # "ok" THEN r
    ELSE Filled(r, "secrets", deserialize_string_list(bs, r.pos))

ReadEmails(bs, r) ==
    IF r.st # "ok" THEN r
    ELSE Filled(r, "emails", deserialize_string_list(bs, r.pos))

\* mutant: bytes left over after the member_of list fail the decoding
ReadMemberOf_ToEnd(bs, r) ==
    IF r.st # "ok" THEN r
    ELSE IF Filled(r, "member_of", deserialize_u32_list(bs, r.pos)).st # "ok"
    THEN Filled(r, "member_of", deserialize_u32_list(bs, r.pos))
    ELSE IF deserialize_u32_list(bs, r.pos).pos = Len(bs) + 1
    THEN Filled(r, "member_of", deserialize_u32_list(bs, r.pos))
    ELSE [st |-> "none"]

ReadMemberOf(bs, r) ==
    IF r.st # "ok" THEN r
    ELSE Filled(r, "member_of", deserialize_u32_list(bs, r.pos))

\* fn deserialize(bytes: &[u8]) -> Option<Principal<u32>>
deserialize(bs) ==
    ReadMemberOf(bs,
      ReadEmails(bs,
        ReadSecrets(bs,
          ReadDescription(bs,
            ReadName(bs,
              ReadQuota(bs, ReadTyp(bs, ReadId(bs, ReadVersion(bs)))))))))

\* Deserialize for Principal<u32>: Some becomes Ok, None becomes the
\* generic InternalError
Deserialize(bs) ==
    LET r == deserialize(bs) IN
    CASE r.st = "ok" -> [kind |-> "Ok", val |-> r.val]
      [] r.st = "none" -> [kind |-> "Err",
                            val |-> "Failed to deserialize principal"]
      [] OTHER -> [kind |-> r.st, val |-> "no return"]

(***************************************************************************)
(* Idle values: what the variables of one scenario hold while another      *)
(* scenario runs.                                                          *)
(***************************************************************************)
NoPrincipal == Unfilled

NotDecoded == [kind |-> "-", val |-> "-"]

CodecIdle ==
    /\ principal = NoPrincipal
    /\ bytes = <<>>
    /\ origin = [kind |-> "-"]
    /\ outcome = NotDecoded
    /\ pc = "idle"

RegistryIdle ==
    /\ config = <<>>
    /\ stores = <<>>
    /\ test_mode = FALSE
    /\ todo = {}
    /\ directories = <<>>
    /\ errors = {}
    /\ rpc = "idle"
    /\ pd_todo = {}
    /\ pd_directories = <<>>
    /\ pd_result = [kind |-> "-"]
    /\ pd_pc = "idle"

PoolIdle ==
    /\ poolConfig = <<>>
    /\ pool = <<>>
    /\ ppc = "idle"

\* no PrincipalUpdate was constructed
UpdateIdle == update = <<>>

\* no authentication result was reduced to its token
NoTokens == [spf |-> <<>>, iprev |-> <<>>, dkim |-> <<>>, dmarc |-> <<>>,
             policy |-> <<>>]

AuthIdle == auth = NoTokens

(***************************************************************************)
(* The codec scenario: a Principal is serialized and the record, or bytes  *)
(* derived from it, or bytes from elsewhere, are deserialized.             *)
(***************************************************************************)
RECURSIVE SeqsUpTo(_,_)
SeqsUpTo(S, n) ==
    IF n = 0 THEN {<<>>}
    ELSE LET shorter == SeqsUpTo(S, n - 1) IN
         shorter \cup {Append(q, x) : q \in {r \in shorter : Len(r) = n - 1}, x \in S}

RECURSIVE Concat(_)
Concat(ss) == IF ss = <<>> THEN <<>> ELSE Head(ss) \o Concat(Tail(ss))

SampleIds == {<<>>, U32Max}
SampleQuotas == {<<>>, NumOf(300)}
SampleNames == {<<110, 195, 169>>}
SampleDescriptions == {<<>>, <<<<>>>>, <<<<100>>>>}
SampleSecrets == {<<>>, <<115>>}
SampleEmails == {<<101, 64, 120>>}
SampleMembers == {<<1>>, NumOf(200)}

Principals ==
    [id : SampleIds, typ : Types, quota : SampleQuotas, name : SampleNames,
     description : SampleDescriptions,
     secrets : SeqsUpTo(SampleSecrets, MaxListLen),
     emails : SeqsUpTo(SampleEmails, MaxListLen),
     member_of : SeqsUpTo(SampleMembers, MaxMembers)]

\* bytes for inputs that come from no serializer: zero, the version, a
\* small count, a byte with the continuation bit, 0xff
SampleBytes == {0, 1, 2, 128, 255}

RawInputs == SeqsUpTo(SampleBytes, MaxRawLen)

\* typ bytes tried in place of the written one: every known ordinal, the
\* first unknown ones and the ends of the range
SampleTypBytes == (0..8) \cup {127, 128, 255}

\* length and count prefixes a hostile record may carry: 0, 1, 128^4,
\* isize::MAX / 24 + 1, 2^61, 2^63
SampleLengths ==
    {<<>>, <<1>>, <<0, 0, 0, 0, 1>>,
     <<86, 42, 85, 42, 85, 42, 85, 42, 5>>,
     <<0, 0, 0, 0, 0, 0, 0, 0, 32>>,
     <<0, 0, 0, 0, 0, 0, 0, 0, 0, 1>>}

\* the length-prefixed fields, in wire order
PrefixedFields == <<"name", "description", "secrets", "emails", "member_of">>

\* a record with id 0, typ 0 and quota 0 followed by the given prefixes
Forged(lens) ==
    <<1, 0, 0, 0>> \o Concat([i \in 1..Len(lens) |-> write_leb128(lens[i])])

\* the position of the typ byte in serialize(p)
TypPos(p) == 1 + Len(write_leb128(p.id)) + 1

\* the position of the first byte of the name in serialize(p)
NamePos(p) ==
    TypPos(p) + 1 + Len(write_leb128(p.quota))
    + Len(write_leb128(NumOf(Len(p.name))))

\* the position of the description's length prefix in serialize(p)
DescriptionPos(p) == NamePos(p) + Len(p.name)

CodecInit ==
    /\ principal = NoPrincipal
    /\ bytes = <<>>
    /\ origin = [kind |-> "-"]
    /\ outcome = NotDecoded
    /\ pc = "start"
    /\ RegistryIdle
    /\ PoolIdle
    /\ UpdateIdle
    /\ AuthIdle

\* principal.serialize()
Serialize ==
    /\ pc = "start"
    /\ \E p \in Principals :
          /\ principal' = p
          /\ bytes' = serialize(p)
    /\ origin' = [kind |-> "serialize"]
    /\ pc' = "encoded"
    /\ UNCHANGED <<outcome, registryVars, poolVars, updateVars, authVars>>

\* Principal::deserialize(bytes) on the record as written
DeserializeRecord ==
    /\ pc = "encoded"
    /\ outcome' = Deserialize(bytes)
    /\ pc' = "decoded"
    /\ UNCHANGED <<principal, bytes, origin, registryVars, poolVars, updateVars, authVars>>

\* Principal::deserialize on the record cut short by k bytes
DeserializeTruncated ==
    /\ pc = "encoded"
    /\ \E k \in 1..Len(bytes) :
          /\ bytes' = SubSeq(bytes, 1, Len(bytes) - k)
          /\ origin' = [kind |-> "truncate", k |-> k]
          /\ outcome' = Deserialize(bytes')
    /\ pc' = "decoded"
    /\ UNCHANGED <<principal, registryVars, poolVars, updateVars, authVars>>

\* Principal::deserialize on the record with another typ byte
DeserializeTyp ==
    /\ pc = "encoded"
    /\ \E b \in SampleTypBytes :
          /\ bytes' = [bytes EXCEPT ![TypPos(principal)] = b]
          /\ origin' = [kind |-> "typ", byte |-> b]
          /\ outcome' = Deserialize(bytes')
    /\ pc' = "decoded"
    /\ UNCHANGED <<principal, registryVars, poolVars, updateVars, authVars>>

\* Principal::deserialize on the record with another version byte
DeserializeVersion ==
    /\ pc = "encoded"
    /\ \E b \in SampleBytes \ {1} :
          /\ bytes' = [bytes EXCEPT ![1] = b]
          /\ origin' = [kind |-> "version", byte |-> b]
          /\ outcome' = Deserialize(bytes')
    /\ pc' = "decoded"
    /\ UNCHANGED <<principal, registryVars, poolVars, updateVars, authVars>>

\* Principal::deserialize on the record with a byte of the name replaced
\* by one that no UTF-8 string holds there
DeserializeName ==
    /\ pc = "encoded"
    /\ \E i \in 0..(Len(principal.name) - 1), b \in {192, 255} :
          /\ bytes' = [bytes EXCEPT ![NamePos(principal) + i] = b]
          /\ origin' = [kind |-> "name", at |-> i, byte |-> b]
          /\ outcome' = Deserialize(bytes')
    /\ pc' = "decoded"
    /\ UNCHANGED <<principal, registryVars, poolVars, updateVars, authVars>>

\* Principal::deserialize on the record followed by other bytes
DeserializeTrailing ==
    /\ pc = "encoded"
    /\ \E t \in SeqsUpTo(SampleBytes, MaxTrail) \ {<<>>} :
          /\ bytes' = bytes \o t
          /\ origin' = [kind |-> "trailing", tail |-> t]
          /\ outcome' = Deserialize(bytes')
    /\ pc' = "decoded"
    /\ UNCHANGED <<principal, registryVars, poolVars, updateVars, authVars>>

\* Principal::deserialize on bytes that no serializer wrote
DeserializeRaw ==
    /\ pc = "start"
    /\ \E raw \in RawInputs :
          /\ bytes' = raw
          /\ outcome' = Deserialize(raw)
    /\ origin' = [kind |-> "raw"]
    /\ pc' = "decoded"
    /\ UNCHANGED <<principal, registryVars, poolVars, updateVars, authVars>>

\* Principal::deserialize on a record whose length and count prefixes were
\* chosen by whoever wrote the bytes
DeserializeForged ==
    /\ pc = "start"
    /\ \E lens \in SeqsUpTo(SampleLengths, Len(PrefixedFields)) :
          /\ bytes' = Forged(lens)
          /\ origin' = [kind |-> "forged", lens |-> lens]
          /\ outcome' = Deserialize(bytes')
    /\ pc' = "decoded"
    /\ UNCHANGED <<principal, registryVars, poolVars, updateVars, authVars>>

CodecNext ==
    \/ Serialize
    \/ DeserializeRecord
    \/ DeserializeTruncated
    \/ DeserializeTyp
    \/ DeserializeVersion
    \/ DeserializeName
    \/ DeserializeTrailing
    \/ DeserializeRaw
    \/ DeserializeForged

SpecCodec == CodecInit /\ [][CodecNext]_vars

(***************************************************************************)
(* The directory registry: Directories::parse.                             *)
(*                                                                         *)
(* config[id] holds the keys directory.<id>.*: type (or "absent"), disable,*)
(* store (<<>> when the key is absent) and whether the keys the adapter of *)
(* that type reads are such that its constructor can build it.             *)
(***************************************************************************)
DirIds == 1..MaxDirs

AdapterTypes == {"ldap", "sql", "imap", "smtp", "lmtp", "memory"}
KnownTypes == {"internal"} \cup AdapterTypes

\* the stores of the server: "db" initializes, "bad" fails to
Stores == [db |-> "ok", bad |-> "fails"]

DirConfigs ==
    {[type |-> "absent", disable |-> FALSE, store |-> <<>>, adapter_keys |-> "complete"]}
    \cup [type : {"internal"}, disable : BOOLEAN,
          store : {<<>>, <<"db">>, <<"gone">>, <<"bad">>},
          adapter_keys : {"complete"}]
    \cup [type : AdapterTypes, disable : BOOLEAN, store : {<<>>},
          adapter_keys : {"complete", "broken"}]
    \cup [type : {"kerberos"}, disable : BOOLEAN, store : {<<>>},
          adapter_keys : {"complete"}]

\* config.sub_keys("directory", ".type"): the ids that have a type key
sub_keys(cfg) == {id \in DOMAIN cfg : cfg[id].type # "absent"}

\* config.new_parse_error(key, err): one diagnostic a key
new_parse_error(errs, key, err) ==
    {e \in errs : e.key # key} \cup {[key |-> key, error |-> err]}

\* the diagnostic config.value_require_ records for a missing key
MissingProperty(errs, key) == new_parse_error(errs, key, "Missing property")

\* config.property_or_default_::<bool>(("directory", id, "disable"), "false")
\* .unwrap_or(false), compiled in with the feature test_mode only
SkipDisabled(cfg, id, testMode) == testMode /\ cfg[id].disable

\* mutant: the imap arm wraps its adapter as the smtp arm does
AdapterVariant_ImapAsSmtp(protocol) ==
    CASE protocol = "ldap" -> "Ldap"
      [] protocol = "sql" -> "Sql"
      [] protocol = "imap" -> "Smtp"
      [] protocol = "smtp" -> "Smtp"
      [] protocol = "lmtp" -> "Smtp"
      [] protocol = "memory" -> "Memory"

\* the arms of `match protocol` that call an adapter constructor
AdapterVariant(protocol) ==
    CASE protocol = "ldap" -> "Ldap"
      [] protocol = "sql" -> "Sql"
      [] protocol = "imap" -> "Imap"
      [] protocol = "smtp" -> "Smtp"
      [] protocol = "lmtp" -> "Smtp"
      [] protocol = "memory" -> "Memory"

\* XxxDirectory::from_config(config, prefix, ..): Some(adapter) built from
\* the keys under prefix, or None with a diagnostic recorded under prefix
from_config(cfg, id, protocol) ==
    IF cfg[id].adapter_keys = "complete"
    THEN [store |-> <<[variant |-> AdapterVariant(protocol), prefix |-> id,
                       is_lmtp |-> protocol = "lmtp"]>>,
          errs |-> {}]
    ELSE [store |-> <<>>,
          errs |-> {[key |-> <<"directory", id>>, error |-> "Invalid adapter settings"]}]

\* CachedDirectory::try_from_config(config, ("directory", id))
try_from_config(id) == [prefix |-> id]

\* mutant: the loop ends at the first directory that cannot be built
Continue_Break(left, id) == {}

\* `continue`: the loop goes on with the ids not yet visited
Continue(left, id) == left \ {id}

\* one turn of the loop over the declared ids, visiting id
VisitDisabled(id) ==
    /\ SkipDisabled(config, id, test_mode)
    /\ todo' = Continue(todo, id)
    /\ UNCHANGED <<directories, errors>>

VisitInternal(id) ==
    /\ ~SkipDisabled(config, id, test_mode)
    /\ config[id].type = "internal"
    /\ IF config[id].store = <<>>
       THEN /\ errors' = MissingProperty(errors, <<"directory", id, "store">>)
            /\ todo' = Continue(todo, id)
            /\ UNCHANGED directories
       ELSE IF config[id].store[1] \notin DOMAIN stores
       THEN /\ errors' = new_parse_error(errors, <<"directory", id, "store">>,
                                         "Store does not exist")
            /\ todo' = Continue(todo, id)
            /\ UNCHANGED directories
       ELSE IF stores[config[id].store[1]] # "ok"
       THEN /\ errors' = new_parse_error(errors, <<"directory", id, "store">>,
                                         "Failed to initialize store")
            /\ todo' = Continue(todo, id)
            /\ UNCHANGED directories
       ELSE /\ directories' =
                  [i \in DOMAIN directories \cup {id} |->
                      IF i = id
                      THEN [store |-> [variant |-> "Internal",
                                       prefix |-> id, is_lmtp |-> FALSE],
                            cache |-> try_from_config(id)]
                      ELSE directories[i]]
            /\ todo' = todo \ {id}
            /\ UNCHANGED errors

\* the adapter arms, then "Build directory" and "Add directory"
VisitAdapter(id) ==
    /\ ~SkipDisabled(config, id, test_mode)
    /\ config[id].type \in AdapterTypes
    /\ errors' = errors \cup from_config(config, id, config[id].type).errs
    /\ IF from_config(config, id, config[id].type).store # <<>>
       THEN directories' =
               [i \in DOMAIN directories \cup {id} |->
                   IF i = id
                   THEN [store |-> from_config(config, id, config[id].type).store[1],
                         cache |-> try_from_config(id)]
                   ELSE directories[i]]
       ELSE UNCHANGED directories
    /\ todo' = todo \ {id}

\* mutant: the directory of unknown type is skipped without a diagnostic
VisitUnknown_Silent(id) ==
    /\ ~SkipDisabled(config, id, test_mode)
    /\ config[id].type \notin KnownTypes
    /\ todo' = Continue(todo, id)
    /\ UNCHANGED <<directories, errors>>

VisitUnknown(id) ==
    /\ ~SkipDisabled(config, id, test_mode)
    /\ config[id].type \notin KnownTypes
    /\ errors' = new_parse_error(errors, <<"directory", id, "type">>,
                                 "Unknown directory type")
    /\ todo' = Continue(todo, id)
    /\ UNCHANGED directories

RegistryInit ==
    /\ config \in [DirIds -> DirConfigs]
    /\ stores = Stores
    /\ test_mode \in BOOLEAN
    /\ todo = sub_keys(config)
    /\ directories = <<>>
    /\ errors = {}
    /\ rpc = "loop"
    /\ pd_todo = sub_keys(config)
    /\ pd_directories = <<>>
    /\ pd_result = [kind |-> "-"]
    /\ pd_pc = "loop"
    /\ CodecIdle
    /\ PoolIdle
    /\ UpdateIdle
    /\ AuthIdle

\* Directories::parse, one directory a step, in any order of the ids
ParseDisabled ==
    /\ rpc = "loop"
    /\ \E id \in todo : VisitDisabled(id)
    /\ UNCHANGED <<config, stores, test_mode, rpc, pd_todo, pd_directories,
                   pd_result, pd_pc, codecVars, poolVars, updateVars, authVars>>

ParseInternal ==
    /\ rpc = "loop"
    /\ \E id \in todo : VisitInternal(id)
    /\ UNCHANGED <<config, stores, test_mode, rpc, pd_todo, pd_directories,
                   pd_result, pd_pc, codecVars, poolVars, updateVars, authVars>>

ParseAdapter ==
    /\ rpc = "loop"
    /\ \E id \in todo : VisitAdapter(id)
    /\ UNCHANGED <<config, stores, test_mode, rpc, pd_todo, pd_directories,
                   pd_result, pd_pc, codecVars, poolVars, updateVars, authVars>>

ParseUnknown ==
    /\ rpc = "loop"
    /\ \E id \in todo : VisitUnknown(id)
    /\ UNCHANGED <<config, stores, test_mode, rpc, pd_todo, pd_directories,
                   pd_result, pd_pc, codecVars, poolVars, updateVars, authVars>>

\* Directories { directories }
ParseReturn ==
    /\ rpc = "loop"
    /\ todo = {}
    /\ rpc' = "done"
    /\ UNCHANGED <<config, stores, test_mode, todo, directories, errors,
                   pd_todo, pd_directories, pd_result, pd_pc,
                   codecVars, poolVars, updateVars, authVars>>

(***************************************************************************)
(* The second construction path: ConfigDirectory::parse_directory, run on  *)
(* the same configuration once Directories::parse has returned.  Its       *)
(* registry is the local it fills, dropped when it returns early.          *)
(***************************************************************************)
\* return Err(..) or `?`: the function ends and its locals are dropped
ReturnErr(id, err) ==
    /\ pd_result' = [kind |-> "Err", val |-> err]
    /\ pd_directories' = <<>>
    /\ pd_todo' = pd_todo \ {id}
    /\ pd_pc' = "done"

\* "Build directory" and "Add directory"
InsertDirectory(id, store) ==
    /\ pd_directories' =
          [i \in DOMAIN pd_directories \cup {id} |->
              IF i = id
              THEN [store |-> store, cache |-> try_from_config(id)]
              ELSE pd_directories[i]]
    /\ pd_todo' = pd_todo \ {id}
    /\ UNCHANGED <<pd_result, pd_pc>>

\* self.property_or_default::<bool>(("directory", id, "disable"), "false")?
StrictSkipDisabled(cfg, id) == cfg[id].disable

StrictVisitDisabled(id) ==
    /\ StrictSkipDisabled(config, id)
    /\ pd_todo' = pd_todo \ {id}
    /\ UNCHANGED <<pd_directories, pd_result, pd_pc>>

StrictVisitInternal(id) ==
    /\ ~StrictSkipDisabled(config, id)
    /\ config[id].type = "internal"
    /\ IF config[id].store = <<>>
       THEN ReturnErr(id, "Missing property")
       ELSE IF config[id].store[1] \notin DOMAIN stores
       THEN ReturnErr(id, "Failed to find store")
       ELSE IF stores[config[id].store[1]] # "ok"
       THEN ReturnErr(id, "Failed to initialize store")
       ELSE InsertDirectory(id, [variant |-> "Internal", prefix |-> id,
                                 is_lmtp |-> FALSE])

\* XxxDirectory::from_config(..).unwrap()
StrictVisitAdapter(id) ==
    /\ ~StrictSkipDisabled(config, id)
    /\ config[id].type \in AdapterTypes
    /\ IF from_config(config, id, config[id].type).store # <<>>
       THEN InsertDirectory(id, from_config(config, id, config[id].type).store[1])
       ELSE /\ pd_result' = [kind |-> "panic", val |-> "unwrap on None"]
            /\ pd_directories' = <<>>
            /\ pd_todo' = pd_todo \ {id}
            /\ pd_pc' = "done"

\* mutant: a directory of unknown type is passed over
StrictVisitUnknown_Continue(id) ==
    /\ ~StrictSkipDisabled(config, id)
    /\ config[id].type \notin KnownTypes
    /\ pd_todo' = pd_todo \ {id}
    /\ UNCHANGED <<pd_directories, pd_result, pd_pc>>

StrictVisitUnknown(id) ==
    /\ ~StrictSkipDisabled(config, id)
    /\ config[id].type \notin KnownTypes
    /\ ReturnErr(id, "Unknown directory type")

\* parse_directory, one directory a step, in any order of the ids
ParseDirectoryDisabled ==
    /\ rpc = "done"
    /\ pd_pc = "loop"
    /\ \E id \in pd_todo : StrictVisitDisabled(id)
    /\ UNCHANGED <<config, stores, test_mode, todo, directories, errors, rpc,
                   codecVars, poolVars, updateVars, authVars>>

ParseDirectoryInternal ==
    /\ rpc = "done"
    /\ pd_pc = "loop"
    /\ \E id \in pd_todo : StrictVisitInternal(id)
    /\ UNCHANGED <<config, stores, test_mode, todo, directories, errors, rpc,
                   codecVars, poolVars, updateVars, authVars>>

ParseDirectoryAdapter ==
    /\ rpc = "done"
    /\ pd_pc = "loop"
    /\ \E id \in pd_todo : StrictVisitAdapter(id)
    /\ UNCHANGED <<config, stores, test_mode, todo, directories, errors, rpc,
                   codecVars, poolVars, updateVars, authVars>>

ParseDirectoryUnknown ==
    /\ rpc = "done"
    /\ pd_pc = "loop"
    /\ \E id \in pd_todo : StrictVisitUnknown(id)
    /\ UNCHANGED <<config, stores, test_mode, todo, directories, errors, rpc,
                   codecVars, poolVars, updateVars, authVars>>

\* Ok(config)
ParseDirectoryReturn ==
    /\ rpc = "done"
    /\ pd_pc = "loop"
    /\ pd_todo = {}
    /\ pd_result' = [kind |-> "Ok", val |-> pd_directories]
    /\ pd_pc' = "done"
    /\ UNCHANGED <<config, stores, test_mode, todo, directories, errors, rpc,
                   pd_todo, pd_directories,
                   codecVars, poolVars, updateVars, authVars>>

RegistryNext ==
    \/ ParseDisabled
    \/ ParseInternal
    \/ ParseAdapter
    \/ ParseUnknown
    \/ ParseReturn
    \/ ParseDirectoryDisabled
    \/ ParseDirectoryInternal
    \/ ParseDirectoryAdapter
    \/ ParseDirectoryUnknown
    \/ ParseDirectoryReturn

SpecRegistry == RegistryInit /\ [][RegistryNext]_vars

(***************************************************************************)
(* The connection pool policy: build_pool.                                 *)
(*                                                                         *)
(* poolConfig holds the four pool.* keys under the backend's prefix, each  *)
(* <<>> when absent and <<text>> when present.                             *)
(***************************************************************************)
FallbackMaxSize == 10
FallbackCreateTimeout == 30

PoolKeys == {"pool.max-connections", "pool.timeout.create",
             "pool.timeout.wait", "pool.timeout.recycle"}

\* values a key may carry: one that parses and one that does not
SampleSizes == {<<>>, <<"4">>, <<"many">>}
SampleDurations == {<<>>, <<"5s">>, <<"soon">>}

PoolConfigs ==
    {c \in [PoolKeys -> SampleSizes \cup SampleDurations] :
        /\ c["pool.max-connections"] \in SampleSizes
        /\ \A k \in PoolKeys \ {"pool.max-connections"} : c[k] \in SampleDurations}

\* ParseValue for usize and for Duration (seconds): the texts of the model
\* that parse, <<>> for the others
parse_value(text) ==
    CASE text = "4" -> <<4>>
      [] text = "10" -> <<10>>
      [] text = "5s" -> <<5>>
      [] text = "30s" -> <<30>>
      [] OTHER -> <<>>

\* config.property_or_default_(key, default): the key's value, or the
\* default when the key is absent, parsed; None when it does not parse
property_or_default_(cfg, key, default) ==
    IF cfg[key] = <<>> THEN parse_value(default) ELSE parse_value(cfg[key][1])

\* the diagnostics property_or_default_ records for the keys that do not
\* parse
PoolDiagnostics(cfg) ==
    {[key |-> k, error |-> "Invalid value"] :
        k \in {k \in PoolKeys : cfg[k] # <<>> /\ parse_value(cfg[k][1]) = <<>>}}

\* Option::unwrap_or
unwrap_or(opt, fallback) == IF opt = <<>> THEN fallback ELSE opt[1]

\* .wait_timeout(config.property_or_default_((prefix, "pool.timeout.wait"), "30s"))
wait_timeout(cfg) == property_or_default_(cfg, "pool.timeout.wait", "30s")

\* .recycle_timeout(config.property_or_default_((prefix, "pool.timeout.recycle"), "30s"))
recycle_timeout(cfg) == property_or_default_(cfg, "pool.timeout.recycle", "30s")

\* the settings of the Pool that build_pool returns
build_pool(cfg) ==
    [max_size |->
         unwrap_or(property_or_default_(cfg, "pool.max-connections", "10"),
                   FallbackMaxSize),
     create_timeout |->
         <<unwrap_or(property_or_default_(cfg, "pool.timeout.create", "30s"),
                     FallbackCreateTimeout)>>,
     wait_timeout |-> wait_timeout(cfg),
     recycle_timeout |-> recycle_timeout(cfg)]

PoolInit ==
    /\ poolConfig \in PoolConfigs
    /\ pool = <<>>
    /\ ppc = "configured"
    /\ CodecIdle
    /\ RegistryIdle
    /\ UpdateIdle
    /\ AuthIdle

BuildPool ==
    /\ ppc = "configured"
    /\ pool' = build_pool(poolConfig)
    /\ errors' = PoolDiagnostics(poolConfig)
    /\ ppc' = "built"
    /\ UNCHANGED <<poolConfig, config, stores, test_mode, todo, directories,
                   rpc, pd_todo, pd_directories, pd_result, pd_pc,
                   codecVars, updateVars, authVars>>

PoolNext == BuildPool

SpecPool == PoolInit /\ [][PoolNext]_vars

(***************************************************************************)
(* Administrative updates: PrincipalUpdate and its three constructors.     *)
(*                                                                         *)
(* A PrincipalValue is [tag, val] with tag one of the variants of the      *)
(* enum.  The fields of PrincipalUpdate are private, so a caller obtains   *)
(* one from set, add_item or remove_item.                                  *)
(***************************************************************************)
PrincipalFields == {"Name", "Type", "Quota", "Description", "Secrets",
                    "Emails", "MemberOf"}

PrincipalActions == {"Set", "AddItem", "RemoveItem"}

\* values a caller may pass: "" and "a", [] and ["a"], 0 and u32::MAX, and
\* every Type
PrincipalValues ==
    [tag : {"String"}, val : {<<>>, <<97>>}]
    \cup [tag : {"StringList"}, val : {<<>>, <<<<97>>>>}]
    \cup [tag : {"Integer"}, val : {<<>>, U32Max}]
    \cup [tag : {"Type"}, val : Types]

\* PrincipalUpdate::set(field, value)
set(field, value) == [action |-> "Set", field |-> field, value |-> value]

\* PrincipalUpdate::add_item(field, value)
add_item(field, value) ==
    [action |-> "AddItem", field |-> field, value |-> value]

\* PrincipalUpdate::remove_item(field, value)
remove_item(field, value) ==
    [action |-> "RemoveItem", field |-> field, value |-> value]

UpdateInit ==
    /\ update = <<>>
    /\ CodecIdle
    /\ RegistryIdle
    /\ PoolIdle
    /\ AuthIdle

\* a caller constructs an update to hand to a directory
Set ==
    /\ \E f \in PrincipalFields, v \in PrincipalValues : update' = <<set(f, v)>>
    /\ UNCHANGED <<codecVars, registryVars, poolVars, authVars>>

AddItem ==
    /\ \E f \in PrincipalFields, v \in PrincipalValues :
          update' = <<add_item(f, v)>>
    /\ UNCHANGED <<codecVars, registryVars, poolVars, authVars>>

RemoveItem ==
    /\ \E f \in PrincipalFields, v \in PrincipalValues :
          update' = <<remove_item(f, v)>>
    /\ UNCHANGED <<codecVars, registryVars, poolVars, authVars>>

UpdateNext ==
    \/ Set
    \/ AddItem
    \/ RemoveItem

SpecUpdate == UpdateInit /\ [][UpdateNext]_vars

(***************************************************************************)
(* Authentication results (crates/smtp/src/inbound/mod.rs): AuthResult.    *)
(*                                                                         *)
(* A result is [variant, payload]: payload is <<e>> for a variant that     *)
(* carries an error and <<>> for one that carries nothing.  auth holds,    *)
(* for each check of a message, the result and the token as_str gave it.   *)
(***************************************************************************)
\* errors a result may carry
SampleErrors == {"DnsError", "NotAligned"}

Plain(variants) == [variant : variants, payload : {<<>>}]
Carrying(variants) == [variant : variants, payload : {<<e>> : e \in SampleErrors}]

SpfResults ==
    Plain({"Pass", "Fail", "SoftFail", "Neutral", "None", "TempError",
           "PermError"})

IprevResults ==
    Plain({"Pass", "None"}) \cup Carrying({"Fail", "TempError", "PermError"})

DkimResults ==
    Plain({"Pass", "None"})
    \cup Carrying({"Neutral", "Fail", "PermError", "TempError"})

DmarcResults ==
    Plain({"Pass", "None"}) \cup Carrying({"Fail", "TempError", "PermError"})

Policies == Plain({"Reject", "Quarantine", "None", "Unspecified"})

\* impl AuthResult for SpfResult
SpfResult_as_str(r) ==
    CASE r.variant = "Pass" -> "pass"
      [] r.variant = "Fail" -> "fail"
      [] r.variant = "SoftFail" -> "softfail"
      [] r.variant = "Neutral" -> "neutral"
      [] r.variant = "None" -> "none"
      [] r.variant = "TempError" -> "temperror"
      [] r.variant = "PermError" -> "permerror"

\* impl AuthResult for IprevResult
IprevResult_as_str(r) ==
    CASE r.variant = "Pass" -> "pass"
      [] r.variant = "Fail" -> "fail"
      [] r.variant = "TempError" -> "temperror"
      [] r.variant = "PermError" -> "permerror"
      [] r.variant = "None" -> "none"

\* mutant: a DKIM failure that carries its cause is reported as the cause
DkimResult_as_str_Cause(r) ==
    CASE r.variant = "Pass" -> "pass"
      [] r.variant = "None" -> "none"
      [] r.variant = "Neutral" -> "neutral"
      [] r.variant = "Fail" ->
            (IF r.payload = <<"DnsError">> THEN "temperror" ELSE "fail")
      [] r.variant = "PermError" -> "permerror"
      [] r.variant = "TempError" -> "temperror"

\* impl AuthResult for DkimResult
DkimResult_as_str(r) ==
    CASE r.variant = "Pass" -> "pass"
      [] r.variant = "None" -> "none"
      [] r.variant = "Neutral" -> "neutral"
      [] r.variant = "Fail" -> "fail"
      [] r.variant = "PermError" -> "permerror"
      [] r.variant = "TempError" -> "temperror"

\* impl AuthResult for DmarcResult
DmarcResult_as_str(r) ==
    CASE r.variant = "Pass" -> "pass"
      [] r.variant = "Fail" -> "fail"
      [] r.variant = "TempError" -> "temperror"
      [] r.variant = "PermError" -> "permerror"
      [] r.variant = "None" -> "none"

\* impl AuthResult for Policy
Policy_as_str(r) ==
    CASE r.variant = "Reject" -> "reject"
      [] r.variant = "Quarantine" -> "quarantine"
      [] r.variant \in {"None", "Unspecified"} -> "none"

AuthInit ==
    /\ auth = NoTokens
    /\ CodecIdle
    /\ RegistryIdle
    /\ PoolIdle
    /\ UpdateIdle

\* the result of one check of the message is reduced to its token
SpfAsStr ==
    /\ \E r \in SpfResults :
          auth' = [auth EXCEPT !.spf = <<[result |-> r, token |-> SpfResult_as_str(r)]>>]
    /\ UNCHANGED <<codecVars, registryVars, poolVars, updateVars>>

IprevAsStr ==
    /\ \E r \in IprevResults :
          auth' = [auth EXCEPT !.iprev = <<[result |-> r, token |-> IprevResult_as_str(r)]>>]
    /\ UNCHANGED <<codecVars, registryVars, poolVars, updateVars>>

DkimAsStr ==
    /\ \E r \in DkimResults :
          auth' = [auth EXCEPT !.dkim = <<[result |-> r, token |-> DkimResult_as_str(r)]>>]
    /\ UNCHANGED <<codecVars, registryVars, poolVars, updateVars>>

DmarcAsStr ==
    /\ \E r \in DmarcResults :
          auth' = [auth EXCEPT !.dmarc = <<[result |-> r, token |-> DmarcResult_as_str(r)]>>]
    /\ UNCHANGED <<codecVars, registryVars, poolVars, updateVars>>

PolicyAsStr ==
    /\ \E r \in Policies :
          auth' = [auth EXCEPT !.policy = <<[result |-> r, token |-> Policy_as_str(r)]>>]
    /\ UNCHANGED <<codecVars, registryVars, poolVars, updateVars>>

AuthNext ==
    \/ SpfAsStr
    \/ IprevAsStr
    \/ DkimAsStr
    \/ DmarcAsStr
    \/ PolicyAsStr

SpecAuth == AuthInit /\ [][AuthNext]_vars

(***************************************************************************)
(* Properties of the codec.                                                *)
(***************************************************************************)
\* Some("") is written like None and read back as None
Normalized(p) ==
    [p EXCEPT !.description = IF @ = <<<<>>>> THEN <<>> ELSE @]

\* C1 as stated: deserialize(serialize(p)) succeeds and returns a Principal
\* equal to p in every field, for every Principal p.
C1_RoundTrip ==
    (pc = "decoded" /\ origin.kind = "serialize")
        => outcome = [kind |-> "Ok", val |-> principal]

\* C1 as amended: deserialize(serialize(p)) succeeds and returns p with a
\* description of Some("") replaced by None and every other field, and
\* every other description, equal to p's.
C1_RoundTripNormalized ==
    (pc = "decoded" /\ origin.kind = "serialize")
        => outcome = [kind |-> "Ok", val |-> Normalized(principal)]

C1_Witness ==
    /\ pc = "decoded"
    /\ origin.kind = "serialize"
    /\ outcome = [kind |-> "Ok", val |-> principal]
    /\ principal.id = U32Max
    /\ principal.description # <<>>
    /\ principal.secrets # <<>>
    /\ principal.emails # <<>>
    /\ principal.member_of # <<>>

\* C2: deserialize of serialize(p) cut short by k bytes, 1 <= k <= N, is a
\* decode error and never a Principal.
C2_TruncationFailsClosed ==
    (pc = "decoded" /\ origin.kind = "truncate")
        => /\ Len(bytes) = Len(serialize(principal)) - origin.k
           /\ outcome.kind = "Err"

C2_Witness ==
    /\ pc = "decoded"
    /\ origin.kind = "truncate"
    /\ origin.k = 1
    /\ principal.member_of # <<>>
    /\ outcome.kind = "Err"

\* C3: for every byte sequence the decoder returns, either a complete
\* Principal or the generic decode error: invalid UTF-8 and a prefix that
\* asks for more bytes than remain are decode errors, and nothing panics.
C3_DecoderAlwaysReturns ==
    pc = "decoded" => outcome.kind \in {"Ok", "Err"}

\* C4: deserialize returns a decode error for the empty input and for every
\* input whose first byte is not 1, and serialize emits 1 as first byte.
C4_VersionByte ==
    /\ (pc = "decoded" /\ (bytes = <<>> \/ bytes[1] # 1))
          => outcome.kind = "Err"
    /\ pc = "encoded" => (bytes # <<>> /\ bytes[1] = 1)

C4_Witness ==
    /\ pc = "decoded"
    /\ origin.kind = "version"
    /\ origin.byte = 2
    /\ bytes[1] = 2
    /\ Tail(bytes) = Tail(serialize(principal))
    /\ outcome.kind = "Err"

\* the variant the spec gives an ordinal
VariantOfOrdinal(b) ==
    IF b >= 6 THEN "Other"
    ELSE <<"Individual", "Group", "Resource", "Location", "Superuser",
           "List">>[b + 1]

\* C5: the typ byte never fails the decoding: ordinals 0..5 decode to
\* Individual, Group, Resource, Location, Superuser, List, every other byte
\* to Other, and a decoded Principal's typ is one of the seven variants.
C5_TypByte ==
    /\ (pc = "decoded" /\ origin.kind = "typ")
          => /\ outcome.kind = "Ok"
             /\ outcome.val =
                   [Normalized(principal) EXCEPT !.typ = VariantOfOrdinal(origin.byte)]
    /\ (pc = "decoded" /\ outcome.kind = "Ok") => outcome.val.typ \in Types

C5_Witness ==
    /\ pc = "decoded"
    /\ origin.kind = "typ"
    /\ origin.byte = 255
    /\ principal.typ = "Group"
    /\ outcome.kind = "Ok"
    /\ outcome.val.typ = "Other"

\* C12: serialize writes a zero length for an unset description and for an
\* empty one alike; deserialize returns description unset when the encoded
\* length is zero and the exact string otherwise; no decoded Principal has
\* a description set to the empty string.
C12_DescriptionNormalized ==
    /\ pc = "encoded" =>
          /\ (principal.description \in {<<>>, <<<<>>>>})
                <=> bytes[DescriptionPos(principal)] = 0
          /\ bytes = serialize([principal EXCEPT
                                   !.description = IF @ = <<<<>>>> THEN <<>> ELSE @])
    /\ (pc = "decoded" /\ origin.kind \in {"serialize", "trailing", "typ"}) =>
          /\ outcome.kind = "Ok"
          /\ outcome.val.description =
                IF bytes[DescriptionPos(principal)] = 0
                THEN <<>> ELSE principal.description
    /\ (pc = "decoded" /\ outcome.kind = "Ok") => outcome.val.description # <<<<>>>>

C12_Witness ==
    /\ pc = "decoded"
    /\ origin.kind = "serialize"
    /\ principal.description = <<<<>>>>
    /\ bytes[DescriptionPos(principal)] = 0
    /\ outcome.kind = "Ok"
    /\ outcome.val.description = <<>>

\* C13: every Principal a successful deserialize returns has a name of
\* length at least 1.
C13_NameNeverEmpty ==
    (pc = "decoded" /\ outcome.kind = "Ok") => Len(outcome.val.name) >= 1

\* the wire format as the specification lays it out
Varint(ds) ==
    IF ds = <<>> THEN <<0>>
    ELSE [i \in 1..Len(ds) |-> IF i < Len(ds) THEN 128 + ds[i] ELSE ds[i]]

LengthPrefixed(str) == Varint(NumOf(Len(str))) \o str

Counted(items) == Varint(NumOf(Len(items))) \o Concat(items)

OrdinalOf(t) == CHOOSE b \in 0..6 : VariantOfOrdinal(b) = t

WireEncoding(p) ==
    Concat(<<
        <<1>>,
        Varint(p.id),
        <<OrdinalOf(p.typ)>>,
        Varint(p.quota),
        LengthPrefixed(p.name),
        LengthPrefixed(IF p.description = <<>> THEN <<>> ELSE p.description[1]),
        Counted([i \in 1..Len(p.secrets) |-> LengthPrefixed(p.secrets[i])]),
        Counted([i \in 1..Len(p.emails) |-> LengthPrefixed(p.emails[i])]),
        Counted([i \in 1..Len(p.member_of) |-> Varint(p.member_of[i])])
    >>)

\* C15: serialize emits version byte 1, varint id, the typ byte, varint
\* quota, the length-prefixed name and description, secrets then emails
\* (each a count and that many length-prefixed strings in list order), then
\* the count of member_of and that many varint ids in list order, and
\* nothing else: the output is this encoding byte for byte.
C15_WireOrder ==
    pc = "encoded" => bytes = WireEncoding(principal)

C15_Witness ==
    /\ pc = "encoded"
    /\ bytes = WireEncoding(principal)
    /\ principal.description \notin {<<>>, <<<<>>>>}
    /\ Len(principal.secrets) = MaxListLen
    /\ Len(principal.emails) = MaxListLen
    /\ Len(principal.member_of) = MaxMembers
    /\ \E i \in 1..Len(principal.member_of) :
          principal.member_of[i] # principal.member_of[1]
    /\ \E i \in 1..Len(principal.secrets) :
          principal.secrets[i] # principal.secrets[1]

\* C18: for every Principal p and every byte sequence t,
\* deserialize(serialize(p) ++ t) succeeds and returns the Principal that
\* deserialize(serialize(p)) returns: bytes after the member_of list are
\* never a decode error.
C18_TrailingIgnored ==
    (pc = "decoded" /\ origin.kind = "trailing") =>
        /\ bytes = serialize(principal) \o origin.tail
        /\ outcome.kind = "Ok"
        /\ outcome = Deserialize(serialize(principal))

C18_Witness ==
    /\ pc = "decoded"
    /\ origin.kind = "trailing"
    /\ origin.tail = <<255>>
    /\ principal.member_of # <<>>
    /\ outcome.kind = "Ok"
    /\ outcome.val = Normalized(principal)

(***************************************************************************)
(* Properties of the registry.                                             *)
(***************************************************************************)
Declared == {id \in DirIds : config[id].type # "absent"}

UnknownTyped == {id \in Declared : config[id].type \notin KnownTypes}

\* what the configuration and the stores promise for a directory, whatever
\* parse does: its adapter can be built
Buildable(id) ==
    \/ config[id].type = "internal" /\ config[id].store = <<"db">>
    \/ config[id].type \in AdapterTypes /\ config[id].adapter_keys = "complete"

\* its construction is attempted and fails
Failing(id) ==
    \/ config[id].type = "internal" /\ config[id].store # <<"db">>
    \/ config[id].type \in AdapterTypes /\ config[id].adapter_keys = "broken"

\* the build honours disable and the directory is disabled
Skipped(id) == test_mode /\ config[id].disable

ErrorKeys == {e.key : e \in errors}

\* C6 as stated: with exactly one declared directory of unknown type and
\* every other declared directory constructing successfully, parse returns
\* a registry of exactly the others and exactly one diagnostic is recorded,
\* against the type key of the directory of unknown type.
C6_SoftFailUnknownType ==
    (/\ rpc = "done"
     /\ Cardinality(UnknownTyped) = 1
     /\ \A id \in Declared \ UnknownTyped : Buildable(id) /\ ~Skipped(id))
        => /\ DOMAIN directories = Declared \ UnknownTyped
           /\ Cardinality(errors) = 1
           /\ ErrorKeys = {<<"directory", id, "type">> : id \in UnknownTyped}

\* C6 as amended: the same, provided the directory of unknown type is not
\* skipped as disabled (a skipped directory's type is never looked at, so
\* then the registry still holds exactly the others and no diagnostic is
\* recorded).
C6_SoftFailUnknownTypeVisited ==
    (/\ rpc = "done"
     /\ Cardinality(UnknownTyped) = 1
     /\ \A id \in Declared \ UnknownTyped : Buildable(id) /\ ~Skipped(id))
        => /\ DOMAIN directories = Declared \ UnknownTyped
           /\ \A id \in UnknownTyped :
                 IF Skipped(id)
                 THEN errors = {}
                 ELSE /\ Cardinality(errors) = 1
                      /\ ErrorKeys = {<<"directory", id, "type">>}

C6_Witness ==
    /\ rpc = "done"
    /\ Cardinality(Declared) = MaxDirs
    /\ Cardinality(UnknownTyped) = 1
    /\ \A id \in UnknownTyped : ~Skipped(id)
    /\ Cardinality(DOMAIN directories) = MaxDirs - 1
    /\ Cardinality(errors) = 1

\* C7: after parse, every directory whose construction failed is absent
\* from the registry and has a diagnostic under its own configuration key,
\* and every other declared directory that constructs successfully is in
\* the registry, in whatever order the ids were visited.
C7_FailureIsolation ==
    rpc = "done" =>
        \A id \in Declared :
            /\ (Failing(id) /\ ~Skipped(id))
                  => /\ id \notin DOMAIN directories
                     /\ \E k \in ErrorKeys :
                           Len(k) >= 2 /\ k[1] = "directory" /\ k[2] = id
            /\ (Buildable(id) /\ ~Skipped(id)) => id \in DOMAIN directories

C7_Witness ==
    /\ rpc = "done"
    /\ \E bad \in Declared, good \in Declared :
          /\ config[bad].type = "internal"
          /\ config[bad].store = <<"bad">>
          /\ Buildable(good)
          /\ bad \notin DOMAIN directories
          /\ good \in DOMAIN directories
          /\ <<"directory", bad, "store">> \in ErrorKeys

\* C8: a directory whose configuration sets disable = true is not in the
\* registry parse returns, in every build.
C8_DisabledSkipped ==
    rpc = "done" =>
        \A id \in Declared : config[id].disable => id \notin DOMAIN directories

\* the adapter variant the spec gives a type value
VariantOfType(type) ==
    CASE type = "internal" -> "Internal"
      [] type = "ldap" -> "Ldap"
      [] type = "sql" -> "Sql"
      [] type = "imap" -> "Imap"
      [] type \in {"smtp", "lmtp"} -> "Smtp"
      [] type = "memory" -> "Memory"
      [] OTHER -> "none"

\* C9: every key of the registry is a declared id, and the entry under it
\* is the adapter variant its type value selects, built from the
\* configuration under that id, with the cache built from that id.
C9_RegistryContents ==
    \A id \in DOMAIN directories :
        /\ id \in Declared
        /\ id \notin todo
        /\ directories[id].store.variant = VariantOfType(config[id].type)
        /\ directories[id].store.prefix = id
        /\ directories[id].store.is_lmtp = (config[id].type = "lmtp")
        /\ directories[id].cache = [prefix |-> id]

C9_Witness ==
    /\ rpc = "done"
    /\ Cardinality(DOMAIN directories) = MaxDirs
    /\ \E a \in DOMAIN directories, b \in DOMAIN directories :
          /\ config[a].type = "lmtp"
          /\ directories[a].store.variant = "Smtp"
          /\ config[b].type = "imap"
          /\ directories[b].store.variant = "Imap"

\* a directory parse_directory does not skip
Enabled(id) == ~config[id].disable

\* a directory of unknown type, or internal with a store key that is
\* missing, names no store, or names a store that fails to initialize
Unconstructible(id) ==
    \/ config[id].type \notin KnownTypes
    \/ config[id].type = "internal" /\ config[id].store # <<"db">>

\* the directories parse_directory has visited
Visited == Declared \ pd_todo

\* C16: parse_directory is all-or-nothing: visiting an enabled directory of
\* unknown type, or with a missing or nonexistent store reference, or whose
\* store fails to initialize, makes it return an error; with an error no
\* registry is returned, the directories built before are discarded; and a
\* registry is returned only with every enabled declared directory in it.
C16_AllOrNothing ==
    /\ \A id \in Visited :
          (Enabled(id) /\ Unconstructible(id))
              => (pd_pc = "done" /\ pd_result.kind = "Err")
    /\ pd_result.kind = "Err" =>
          /\ pd_directories = <<>>
          /\ \E id \in Visited : Enabled(id) /\ Unconstructible(id)
    /\ pd_result.kind = "Ok" =>
          /\ DOMAIN pd_result.val = {id \in Declared : Enabled(id)}
          /\ \A id \in DOMAIN pd_result.val :
                /\ Buildable(id)
                /\ pd_result.val[id].store.variant = VariantOfType(config[id].type)

C16_Witness ==
    /\ pd_pc = "done"
    /\ pd_result.kind = "Err"
    /\ pd_result.val = "Failed to find store"
    /\ pd_directories = <<>>
    /\ \E good \in Visited, bad \in Visited :
          /\ Enabled(good) /\ Buildable(good)
          /\ Enabled(bad) /\ config[bad].store = <<"gone">>

\* C17: on every configuration on which parse_directory returns Ok, parse
\* returns a registry with the same ids and the same adapter variant under
\* each, and records no diagnostic.
C17_PathsAgree ==
    (rpc = "done" /\ pd_result.kind = "Ok") =>
        /\ DOMAIN directories = DOMAIN pd_result.val
        /\ \A id \in DOMAIN directories \cap DOMAIN pd_result.val :
              directories[id].store.variant = pd_result.val[id].store.variant
        /\ errors = {}

(***************************************************************************)
(* Properties of the pool policy.                                          *)
(***************************************************************************)
\* C10: whatever the pool.* keys hold (absent, valid or unparsable), the
\* pool build_pool returns has a maximum size and a create, a wait and a
\* recycle timeout set, and with the keys absent these are 10 connections
\* and 30 seconds each.
C10_PoolBounded ==
    ppc = "built" =>
        /\ pool.max_size \in Nat
        /\ pool.create_timeout # <<>>
        /\ pool.wait_timeout # <<>>
        /\ pool.recycle_timeout # <<>>
        /\ (\A k \in PoolKeys : poolConfig[k] = <<>>)
              => pool = [max_size |-> 10, create_timeout |-> <<30>>,
                         wait_timeout |-> <<30>>, recycle_timeout |-> <<30>>]

(***************************************************************************)
(* Properties of the administrative updates.                               *)
(***************************************************************************)
\* the value shapes a field takes: its own type, and for a list field also
\* one item of the list
ShapesOf(field) ==
    CASE field \in {"Name", "Description"} -> {"String"}
      [] field = "Type" -> {"Type"}
      [] field = "Quota" -> {"Integer"}
      [] field \in {"Secrets", "Emails"} -> {"StringList", "String"}
      [] field = "MemberOf" -> {"StringList", "String", "Integer"}

\* C11: no PrincipalUpdate whose value shape does not match its field's
\* type comes out of set, add_item or remove_item for a caller to hand to a
\* backend: every update constructed has a value of a shape its field takes.
C11_MismatchRejected ==
    update # <<>> => update[1].value.tag \in ShapesOf(update[1].field)

(***************************************************************************)
(* Properties of the authentication results.                               *)
(***************************************************************************)
\* the token the specification names after a result variant
TokenOf(variant) ==
    CASE variant = "Pass" -> "pass"
      [] variant = "Fail" -> "fail"
      [] variant = "SoftFail" -> "softfail"
      [] variant = "Neutral" -> "neutral"
      [] variant = "None" -> "none"
      [] variant = "TempError" -> "temperror"
      [] variant = "PermError" -> "permerror"

\* the token the specification names after a DMARC policy
PolicyTokenOf(variant) ==
    CASE variant = "Reject" -> "reject"
      [] variant = "Quarantine" -> "quarantine"
      [] variant = "None" -> "none"
      [] variant = "Unspecified" -> "none"

\* C14: as_str gives every SPF, DKIM, DMARC and iprev result the token
\* named after its variant, one of pass, fail, softfail, neutral, none,
\* temperror, permerror, whatever the variant carries; and every DMARC
\* policy one of reject, quarantine, none, with None and Unspecified both
\* none.
C14_FixedTokens ==
    /\ \A check \in {"spf", "iprev", "dkim", "dmarc"} :
          auth[check] # <<>> =>
              /\ auth[check][1].token = TokenOf(auth[check][1].result.variant)
              /\ auth[check][1].token \in
                    {"pass", "fail", "softfail", "neutral", "none",
                     "temperror", "permerror"}
    /\ auth.policy # <<>> =>
          /\ auth.policy[1].token = PolicyTokenOf(auth.policy[1].result.variant)
          /\ auth.policy[1].token \in {"reject", "quarantine", "none"}

C14_Witness ==
    /\ auth.spf # <<>> /\ auth.spf[1].result.variant = "SoftFail"
    /\ auth.spf[1].token = "softfail"
    /\ auth.iprev # <<>> /\ auth.iprev[1].result.variant = "PermError"
    /\ auth.iprev[1].token = "permerror"
    /\ auth.dkim # <<>> /\ auth.dkim[1].result = [variant |-> "Fail",
                                                  payload |-> <<"DnsError">>]
    /\ auth.dkim[1].token = "fail"
    /\ auth.dmarc # <<>> /\ auth.dmarc[1].result.variant = "TempError"
    /\ auth.dmarc[1].token = "temperror"
    /\ auth.policy # <<>> /\ auth.policy[1].result.variant = "Unspecified"
    /\ auth.policy[1].token = "none"

=============================================================================
